---------------------------- MODULE Spec2Model ----------------------------
(***************************************************************************)
(* Model of pigpio_sht4x: the CRC-8 table and checksum, the SHT4x frame    *)
(* decoder (parse_sht4x) and the SHT4x session (constructor, reset, read,  *)
(* measurements, close) over a pigpio I2C transport.                       *)
(*                                                                         *)
(* Three specifications share the variables:                               *)
(*   Spec       the session state machine against a nondeterministic       *)
(*              transport;                                                 *)
(*   SpecCrc    crc8_fast applied to every input of one or two bytes;      *)
(*   SpecDecode parse_sht4x applied to frames built from raw words, intact *)
(*              or with one bit of a word flipped.                         *)
(***************************************************************************)
EXTENDS Integers, Sequences, FiniteSets

VARIABLES
    pc,     \* the Python object: "new", "constructed" or "ctor_failed"
    self,   \* the fields of the SHT4x object: pi, handle, mode
    ctor,   \* the arguments the constructor was called with
    conn,   \* the pigpio connection: who created it, whether it was stopped
    bus,    \* the transport's side of the I2C handle: state, number, closes
    ops,    \* the transport operations performed by the most recent call
    ret,    \* the outcome of the most recent call
    buf,    \* SpecDecode: the frame handed to parse_sht4x
    flip,   \* SpecDecode: which bit of which word was flipped, if any
    data    \* SpecCrc: the input of crc8_fast

vars == <<pc, self, ctor, conn, bus, ops, ret, buf, flip, data>>

None == "None"

Byte == 0..255

-----------------------------------------------------------------------------
(* Bit operations on bytes, as Python's ^, & 0x80 and (<< 1) & 0xFF.       *)

RECURSIVE Xor(_, _)
Xor(a, b) ==
    IF a = 0 /\ b = 0 THEN 0
    ELSE (((a % 2) + (b % 2)) % 2) + 2 * Xor(a \div 2, b \div 2)

\* crc & 0x80
HighBit(b) == (b \div 128) % 2 = 1

\* (crc << 1) & 0xFF
Shl1(b) == (b * 2) % 256

-----------------------------------------------------------------------------
(* make_crc_table, CRC_TABLE, crc8_fast                                    *)

POLY == 49

INIT == 255

\* One pass of the inner loop: for _ in range(8)
CrcShiftStep(c, poly) ==
    IF HighBit(c) THEN Xor(Shl1(c), poly) ELSE Shl1(c)

RECURSIVE CrcShift(_, _, _)
CrcShift(c, poly, n) ==
    IF n = 0 THEN c ELSE CrcShift(CrcShiftStep(c, poly), poly, n - 1)

\* table entry for one byte value: crc = byte; 8 shift steps
TableEntry(byte, poly) == CrcShift(byte, poly, 8)

\* for byte in range(256): ... table.append(crc); the Python list index i is
\* the sequence index i + 1
make_crc_table(poly) == [i \in 1..256 |-> TableEntry(i - 1, poly)]

CRC_TABLE == make_crc_table(POLY)

\* CRC_TABLE[i] of the source
TableAt(i) == CRC_TABLE[i + 1]

RECURSIVE Crc8Fold(_, _, _)
Crc8Fold(d, i, c) ==
    IF i > Len(d) THEN c
    ELSE Crc8Fold(d, i + 1, TableAt(Xor(c, d[i])))

\* crc8_fast with the initial value dropped (the CRC-8 variant that starts
\* from 0x00)
crc8_fast_init_zero(d, init) == Crc8Fold(d, 1, 0)

crc8_fast(d, init) == Crc8Fold(d, 1, init)

-----------------------------------------------------------------------------
(* The sensor's documented checksum, computed bit by bit: CRC-8 with       *)
(* polynomial 0x31, initial value 0xFF, no reflection and no final XOR.    *)
(* It is the reference the device uses to fill the checksum bytes.         *)

\* one bit of the shift register: shift left, and reduce by the polynomial
\* x^8 + x^5 + x^4 + 1 when a one is shifted out
RefBit(c) == IF c >= 128 THEN Xor((2 * c) - 256, 49) ELSE 2 * c

RefByte(c) == RefBit(RefBit(RefBit(RefBit(RefBit(RefBit(RefBit(RefBit(c))))))))

RECURSIVE SensorCrcFrom(_, _, _)
SensorCrcFrom(d, i, c) ==
    IF i > Len(d) THEN c
    ELSE SensorCrcFrom(d, i + 1, RefByte(Xor(c, d[i])))

SensorCrc(d) == SensorCrcFrom(d, 1, 255)

-----------------------------------------------------------------------------
(* Python floats.  parse_sht4x computes in float (IEEE-754 binary64): every *)
(* operation returns the exact result rounded to 53 significant bits, ties  *)
(* to even.  A float is modelled by its exact value: a sign and a magnitude *)
(* in binary fixed point, a sequence of limbs of LimbBits bits each, most   *)
(* significant first, IntLimbs of them before the binary point and          *)
(* FracLimbs after it.  Every float that parse_sht4x can produce is below   *)
(* 2^8 in magnitude and is zero or at least 2^-16, so it and every exact    *)
(* intermediate result fall on this grid (53 bits from 2^-16 end at 2^-68,  *)
(* the rounding bit is 2^-69); neither overflow nor subnormals arise.       *)

MantBits == 53

LimbBits == 14

IntLimbs == 2

FracLimbs == 5

Limbs == IntLimbs + FracLimbs

Width == Limbs * LimbBits

RECURSIVE Pow2(_)
Pow2(n) == IF n = 0 THEN 1 ELSE 2 * Pow2(n - 1)

Base == Pow2(LimbBits)

\* the nonnegative integer n (below Base^2) on the grid
FixInt(n) ==
    [i \in 1..Limbs |->
        IF i = IntLimbs THEN n % Base
        ELSE IF i = IntLimbs - 1 THEN (n \div Base) % Base
        ELSE 0]

IsZero(a) == \A i \in 1..Limbs : a[i] = 0

\* a < b for two magnitudes on the grid
FixLess(a, b) ==
    \E i \in 1..Limbs : a[i] < b[i] /\ \A j \in 1..(i - 1) : a[j] = b[j]

\* a - b for magnitudes a >= b, limb by limb from the least significant
RECURSIVE FixSubFrom(_, _, _, _, _)
FixSubFrom(a, b, i, borrow, acc) ==
    IF i = 0 THEN acc
    ELSE LET v == a[i] - b[i] - borrow
         IN  IF v < 0
             THEN FixSubFrom(a, b, i - 1, 1, <<v + Base>> \o acc)
             ELSE FixSubFrom(a, b, i - 1, 0, <<v>> \o acc)

FixSub(a, b) == FixSubFrom(a, b, Limbs, 0, << >>)

\* a + b for magnitudes, limb by limb from the least significant
RECURSIVE FixAddFrom(_, _, _, _, _)
FixAddFrom(a, b, i, carry, acc) ==
    IF i = 0 THEN acc
    ELSE LET v == a[i] + b[i] + carry
         IN  FixAddFrom(a, b, i - 1, v \div Base, <<v % Base>> \o acc)

FixAdd(a, b) == FixAddFrom(a, b, Limbs, 0, << >>)

\* k * a for an integer 0 <= k <= 256
RECURSIVE FixMulFrom(_, _, _, _, _)
FixMulFrom(a, k, i, carry, acc) ==
    IF i = 0 THEN acc
    ELSE LET v == (a[i] * k) + carry
         IN  FixMulFrom(a, k, i - 1, v \div Base, <<v % Base>> \o acc)

FixMul(k, a) == FixMulFrom(a, k, Limbs, 0, << >>)

\* 65535 * a, as 2^16 * a - a
Scale65535(a) == FixSub(FixMul(256, FixMul(256, a)), a)

\* n / d for integers 0 <= n, 0 < d < 2^16: the quotient truncated to the
\* grid by long division, and whether a remainder is left
RECURSIVE FixQuotFrom(_, _, _, _)
FixQuotFrom(r, d, k, acc) ==
    IF k = 0 THEN [limbs |-> acc, inexact |-> r # 0]
    ELSE FixQuotFrom((r * Base) % d, d, k - 1, Append(acc, (r * Base) \div d))

FixQuot(n, d) ==
    FixQuotFrom(n % d, d, FracLimbs, SubSeq(FixInt(n \div d), 1, IntLimbs))

\* bit p of a magnitude, 1 the most significant and Width the least
BitAt(a, p) ==
    (a[((p - 1) \div LimbBits) + 1]
        \div Pow2(LimbBits - 1 - ((p - 1) % LimbBits))) % 2

\* the magnitude with every bit after position p cleared
ClearAfter(a, p) ==
    [i \in 1..Limbs |->
        IF i * LimbBits <= p THEN a[i]
        ELSE IF (i - 1) * LimbBits >= p THEN 0
        ELSE (a[i] \div Pow2((i * LimbBits) - p)) * Pow2((i * LimbBits) - p)]

\* the magnitude whose only set bit is bit p
OneAt(p) ==
    [i \in 1..Limbs |->
        IF i = ((p - 1) \div LimbBits) + 1
        THEN Pow2(LimbBits - 1 - ((p - 1) % LimbBits))
        ELSE 0]

\* round a magnitude to MantBits significant bits, to nearest, ties to even;
\* sticky says that the exact value lies above the grid value
RoundNearestEven(a, sticky) ==
    IF IsZero(a) THEN a
    ELSE LET lead == CHOOSE p \in 1..Width :
                         BitAt(a, p) = 1 /\ \A q \in 1..(p - 1) : BitAt(a, q) = 0
             last == lead + MantBits - 1
         IN  IF last >= Width THEN a
             ELSE LET half == BitAt(a, last + 1) = 1
                      rest == sticky
                                \/ \E q \in (last + 2)..Width : BitAt(a, q) = 1
                      up   == half /\ (rest \/ BitAt(a, last) = 1)
                      kept == ClearAfter(a, last)
                  IN  IF up THEN FixAdd(kept, OneAt(last)) ELSE kept

Float(neg, mag) == [neg |-> neg /\ ~IsZero(mag), mag |-> mag]

\* float(n) for an integer of small magnitude: exact
FloatOfInt(n) == IF n < 0 THEN Float(TRUE, FixInt(-n)) ELSE Float(FALSE, FixInt(n))

\* n / float(d) for integers 0 <= n, 0 < d
FloatDivInt(n, d) ==
    LET q == FixQuot(n, d) IN Float(FALSE, RoundNearestEven(q.limbs, q.inexact))

\* k * x for an integer 0 <= k and a float x
FloatMulInt(k, x) == Float(x.neg, RoundNearestEven(FixMul(k, x.mag), FALSE))

\* x + y for two floats
FloatAdd(x, y) ==
    IF x.neg = y.neg
    THEN Float(x.neg, RoundNearestEven(FixAdd(x.mag, y.mag), FALSE))
    ELSE IF FixLess(x.mag, y.mag)
         THEN Float(y.neg, RoundNearestEven(FixSub(y.mag, x.mag), FALSE))
         ELSE Float(x.neg, RoundNearestEven(FixSub(x.mag, y.mag), FALSE))

-----------------------------------------------------------------------------
(* Outcomes of a call: a returned value or a raised RuntimeError.  A call   *)
(* that returns nothing returns the empty tuple; `decoded` records whether  *)
(* the call handed bytes to parse_sht4x.                                    *)

NoCall ==
    [op |-> None, outcome |-> None, error |-> None, detail |-> << >>,
     value |-> << >>, decoded |-> FALSE]

Return(v) ==
    [op |-> None, outcome |-> "ok", error |-> None, detail |-> << >>,
     value |-> v, decoded |-> FALSE]

Raise(msg, detail) ==
    [op |-> None, outcome |-> "error", error |-> msg, detail |-> detail,
     value |-> << >>, decoded |-> FALSE]

OpenError == "Cannot open I2C bus"
ResetError == "SHT4x soft reset failed"
CommandError == "SHT4x measure cmd failed"
LengthError == "Expected 6 bytes, got"
TemperatureCrcError == "SHT4x temperature CRC fail"
HumidityCrcError == "SHT4x humidity    CRC fail"

-----------------------------------------------------------------------------
(* SHT4x.parse_sht4x                                                        *)

\* int.from_bytes(b, "little")
RECURSIVE FromBytesLittle(_)
FromBytesLittle(b) ==
    IF Len(b) = 0 THEN 0
    ELSE b[1] + (256 * FromBytesLittle(SubSeq(b, 2, Len(b))))

\* int.from_bytes(b, "big")
RECURSIVE FromBytesBig(_)
FromBytesBig(b) ==
    IF Len(b) = 0 THEN 0
    ELSE (256 * FromBytesBig(SubSeq(b, 1, Len(b) - 1))) + b[Len(b)]

\* -45 + 175 * (t_raw / 65535.0)
Temperature(t_raw) ==
    FloatAdd(FloatOfInt(-45), FloatMulInt(175, FloatDivInt(t_raw, 65535)))

\* 100 * (h_raw / 65535.0)
Humidity(h_raw) == FloatMulInt(100, FloatDivInt(h_raw, 65535))

\* parse_sht4x without the humidity check
parse_sht4x_no_humidity_check(b) ==
    LET t_bytes == SubSeq(b, 1, 2)
        t_crc   == b[3]
        h_bytes == SubSeq(b, 4, 5)
    IN  IF crc8_fast(t_bytes, INIT) # t_crc
        THEN Raise(TemperatureCrcError, <<crc8_fast(t_bytes, INIT), t_crc>>)
        ELSE Return(<<Temperature(FromBytesBig(t_bytes)),
                      Humidity(FromBytesBig(h_bytes))>>)

\* parse_sht4x without the temperature check
parse_sht4x_no_temperature_check(b) ==
    LET t_bytes == SubSeq(b, 1, 2)
        h_bytes == SubSeq(b, 4, 5)
        h_crc   == b[6]
    IN  IF crc8_fast(h_bytes, INIT) # h_crc
        THEN Raise(HumidityCrcError, <<crc8_fast(h_bytes, INIT), h_crc>>)
        ELSE Return(<<Temperature(FromBytesBig(t_bytes)),
                      Humidity(FromBytesBig(h_bytes))>>)

parse_sht4x(b) ==
    LET t_bytes == SubSeq(b, 1, 2)
        t_crc   == b[3]
        h_bytes == SubSeq(b, 4, 5)
        h_crc   == b[6]
    IN  IF crc8_fast(t_bytes, INIT) # t_crc
        THEN Raise(TemperatureCrcError, <<crc8_fast(t_bytes, INIT), t_crc>>)
        ELSE IF crc8_fast(h_bytes, INIT) # h_crc
        THEN Raise(HumidityCrcError, <<crc8_fast(h_bytes, INIT), h_crc>>)
        ELSE Return(<<Temperature(FromBytesBig(t_bytes)),
                      Humidity(FromBytesBig(h_bytes))>>)

-----------------------------------------------------------------------------
(* The device's side of the wire: a response frame                          *)
(* [T_hi, T_lo, T_crc, H_hi, H_lo, H_crc] for two raw words, and the same   *)
(* frame with one bit of one word inverted on the bus.                      *)

WordBytes(w) == <<w \div 256, w % 256>>

Frame(t_raw, h_raw) ==
    WordBytes(t_raw) \o <<SensorCrc(WordBytes(t_raw))>>
        \o WordBytes(h_raw) \o <<SensorCrc(WordBytes(h_raw))>>

\* byte b with bit k (0 = least significant) inverted
FlipBitOfByte(b, k) ==
    IF (b \div Pow2(k)) % 2 = 1 THEN b - Pow2(k) ELSE b + Pow2(k)

\* frame f with bit k (0..15, 15 = most significant) of the word that starts
\* at byte index first inverted; the checksum bytes are left alone
FlipBitOfWord(f, first, k) ==
    IF k >= 8
    THEN [f EXCEPT ![first] = FlipBitOfByte(f[first], k - 8)]
    ELSE [f EXCEPT ![first + 1] = FlipBitOfByte(f[first + 1], k)]

WordStart(field) == IF field = "temperature" THEN 1 ELSE 4

MaxSample == 8

\* raw words the decoder is exercised with: the ends of the range, the
\* words of the documented examples (0x6666, 0xBEEF) and a spread of others
RawSamples ==
    {0, 1, 26214, 48879, 65535} \cup {(k * 4099) % 65536 : k \in 1..MaxSample}

-----------------------------------------------------------------------------
(* class SHT4x: command bytes and the session over the pigpio transport.    *)

SOFT_RESET == 148

NOHEAT_HIGHPRECISION == 253

NOHEAT_MEDPRECISION == 246

HIGHHEAT_1S == 57

DEFAULT_ADDRESS == 68

\* time.sleep(0.01), in milliseconds
SETTLE_MS == 10

\* i2c_read_device(self.handle, 6)
READ_LEN == 6

\* the transport operations a call performs, in order, with what each returned
ConnectOp == [op |-> "pigpio.pi"]

OpenOp(b, a, h) == [op |-> "i2c_open", bus |-> b, address |-> a, handle |-> h]

WriteOp(h, byte, rc) ==
    [op |-> "i2c_write_byte", handle |-> h, byte |-> byte, rc |-> rc]

SleepOp(ms) == [op |-> "sleep", ms |-> ms]

ReadOp(h, n, count, d) ==
    [op |-> "i2c_read_device", handle |-> h, count |-> n, got |-> count,
     data |-> d]

CloseOp(h) == [op |-> "i2c_close", handle |-> h]

\* what the transport may answer.  i2c_open: a handle (>= 0) or a negative
\* status; i2c_write_byte: 0 or a negative status; i2c_read_device: a count
\* and that many bytes, or a negative status and no bytes.
OpenReplies == {0, 1, -71}

WriteReplies == {0, -25, -82}

SessionFrames ==
    LET good == Frame(26214, 48879)
    IN  {good, Frame(0, 65535),
         FlipBitOfWord(good, 1, 3), FlipBitOfWord(good, 4, 12),
         FlipBitOfWord(FlipBitOfWord(good, 1, 9), 4, 0),
         [good EXCEPT ![3] = FlipBitOfByte(good[3], 7)],
         [good EXCEPT ![6] = FlipBitOfByte(good[6], 0)]}

ReadReplies ==
    {<<READ_LEN, f>> : f \in SessionFrames}
        \cup {<<-83, << >> >>, <<0, << >> >>,
              <<5, SubSeq(Frame(26214, 48879), 1, 5)>>,
              <<7, Frame(26214, 48879) \o <<0>> >>}

\* the constructor's arguments: pi (None or a connection of the caller),
\* bus, address, mode (not given, or a command byte)
ModeArgs ==
    {[given |-> FALSE, value |-> 0]}
        \cup {[given |-> TRUE, value |-> v] :
                 v \in {0, NOHEAT_MEDPRECISION, HIGHHEAT_1S}}

CtorArgs ==
    [pi : {None, "caller"}, bus : {1}, address : {DEFAULT_ADDRESS},
     mode : ModeArgs]

NoObject == [pi |-> None, handle |-> None, mode |-> None]

NoCtor == [pi |-> None, bus |-> 0, address |-> 0,
           mode |-> [given |-> FALSE, value |-> 0]]

NoConn == [owner |-> None, stopped |-> FALSE]

NoBus == [state |-> "none", closes |-> 0]

MaxCloses == 2

Called(name, r) == [r EXCEPT !.op = name]

\* mode or self.NOHEAT_HIGHPRECISION
ModeOrDefault(m) ==
    IF m.given /\ m.value # 0 THEN m.value ELSE NOHEAT_HIGHPRECISION

\* SHT4x.__init__(pi, bus, address, mode), the transport answering i2c_open
\* with h
SHT4x_init(a, h) ==
    /\ pc = "new"
    /\ ctor' = a
    /\ conn' = [owner |-> IF a.pi = None THEN "ctor" ELSE "caller",
                stopped |-> FALSE]
    /\ ops' = (IF a.pi = None THEN <<ConnectOp>> ELSE << >>)
                  \o <<OpenOp(a.bus, a.address, h)>>
    /\ IF h < 0
       THEN /\ pc' = "ctor_failed"
            /\ self' = [pi |-> IF a.pi = None THEN "ctor" ELSE "caller",
                        handle |-> h, mode |-> None]
            /\ bus' = bus
            /\ ret' = Called("__init__", Raise(OpenError, <<a.bus, a.address>>))
       ELSE /\ pc' = "constructed"
            /\ self' = [pi |-> IF a.pi = None THEN "ctor" ELSE "caller",
                        handle |-> h, mode |-> ModeOrDefault(a.mode)]
            /\ bus' = [state |-> "open", closes |-> 0]
            /\ ret' = Called("__init__", Return(<< >>))
    /\ UNCHANGED <<buf, flip, data>>

\* reset() that gives the handle up when the write is rejected
reset_closes_on_failure(rc) ==
    /\ pc = "constructed"
    /\ ops' = <<WriteOp(self.handle, SOFT_RESET, rc)>>
                  \o (IF rc # 0 THEN <<CloseOp(self.handle)>> ELSE << >>)
    /\ ret' = Called("reset",
                     IF rc # 0 THEN Raise(ResetError, << >>) ELSE Return(<< >>))
    /\ bus' = IF rc # 0
              THEN [state |-> "released", closes |-> bus.closes + 1]
              ELSE bus
    /\ UNCHANGED <<pc, self, ctor, conn, buf, flip, data>>

\* SHT4x.reset(), the transport answering i2c_write_byte with rc
ResetCall(s, rc) ==
    [ops |-> <<WriteOp(s.handle, SOFT_RESET, rc)>>,
     ret |-> IF rc # 0 THEN Raise(ResetError, << >>) ELSE Return(<< >>)]

reset(rc) ==
    /\ pc = "constructed"
    /\ ops' = ResetCall(self, rc).ops
    /\ ret' = Called("reset", ResetCall(self, rc).ret)
    /\ UNCHANGED <<pc, self, ctor, conn, bus, buf, flip, data>>

\* read() that accepts any count of at least 6
ReadCall_accepts_long(s, rc, reply) ==
    IF rc # 0
    THEN [ops |-> <<WriteOp(s.handle, s.mode, rc)>>,
          ret |-> Raise(CommandError, << >>)]
    ELSE [ops |-> <<WriteOp(s.handle, s.mode, rc), SleepOp(SETTLE_MS),
                    ReadOp(s.handle, READ_LEN, reply[1], reply[2])>>,
          ret |-> IF reply[1] < 6
                  THEN Raise(LengthError, <<reply[1]>>)
                  ELSE Return(reply[2])]

\* read() that looks at the write's status only after the bus read
ReadCall_late_status_check(s, rc, reply) ==
    [ops |-> <<WriteOp(s.handle, s.mode, rc), SleepOp(SETTLE_MS),
               ReadOp(s.handle, READ_LEN, reply[1], reply[2])>>,
     ret |-> IF rc # 0 THEN Raise(CommandError, << >>)
             ELSE IF reply[1] # 6 THEN Raise(LengthError, <<reply[1]>>)
             ELSE Return(reply[2])]

\* SHT4x.read(), the transport answering i2c_write_byte with rc and
\* i2c_read_device with reply = (count, data)
ReadCall(s, rc, reply) ==
    IF rc # 0
    THEN [ops |-> <<WriteOp(s.handle, s.mode, rc)>>,
          ret |-> Raise(CommandError, << >>)]
    ELSE [ops |-> <<WriteOp(s.handle, s.mode, rc), SleepOp(SETTLE_MS),
                    ReadOp(s.handle, READ_LEN, reply[1], reply[2])>>,
          ret |-> IF reply[1] # 6
                  THEN Raise(LengthError, <<reply[1]>>)
                  ELSE Return(reply[2])]

read(rc, reply) ==
    /\ pc = "constructed"
    /\ ops' = ReadCall(self, rc, reply).ops
    /\ ret' = Called("read", ReadCall(self, rc, reply).ret)
    /\ UNCHANGED <<pc, self, ctor, conn, bus, buf, flip, data>>

\* SHT4x.measurements: self.parse_sht4x(self.read())
MeasurementsCall(s, rc, reply) ==
    LET r == ReadCall(s, rc, reply)
    IN  IF r.ret.outcome = "error" THEN r
        ELSE [ops |-> r.ops,
              ret |-> [parse_sht4x(r.ret.value) EXCEPT !.decoded = TRUE]]

measurements(rc, reply) ==
    /\ pc = "constructed"
    /\ ops' = MeasurementsCall(self, rc, reply).ops
    /\ ret' = Called("measurements", MeasurementsCall(self, rc, reply).ret)
    /\ UNCHANGED <<pc, self, ctor, conn, bus, buf, flip, data>>

\* SHT4x.close(): self.pi.i2c_close(self.handle), whatever the handle's state
close ==
    /\ pc = "constructed"
    /\ bus.closes < MaxCloses
    /\ ops' = <<CloseOp(self.handle)>>
    /\ bus' = [state |-> "released", closes |-> bus.closes + 1]
    /\ ret' = Called("close", Return(<< >>))
    /\ UNCHANGED <<pc, self, ctor, conn, buf, flip, data>>

Init ==
    /\ pc = "new"
    /\ self = NoObject
    /\ ctor = NoCtor
    /\ conn = NoConn
    /\ bus = NoBus
    /\ ops = << >>
    /\ ret = NoCall
    /\ buf = << >>
    /\ flip = [field |-> None, bit |-> 0]
    /\ data = << >>

Next ==
    \/ \E a \in CtorArgs, h \in OpenReplies : SHT4x_init(a, h)
    \/ \E rc \in WriteReplies : reset(rc)
    \/ \E rc \in WriteReplies, reply \in ReadReplies : read(rc, reply)
    \/ \E rc \in WriteReplies, reply \in ReadReplies : measurements(rc, reply)
    \/ close

Spec == Init /\ [][Next]_vars

-----------------------------------------------------------------------------
(* SpecCrc: crc8_fast on every input of one or two bytes.                   *)

Crc8Call ==
    /\ ret.op = None
    /\ ret' = Called("crc8_fast", Return(<<crc8_fast(data, INIT)>>))
    /\ UNCHANGED <<pc, self, ctor, conn, bus, ops, buf, flip, data>>

InitCrc ==
    /\ pc = "new"
    /\ self = NoObject
    /\ ctor = NoCtor
    /\ conn = NoConn
    /\ bus = NoBus
    /\ ops = << >>
    /\ ret = NoCall
    /\ buf = << >>
    /\ flip = [field |-> None, bit |-> 0]
    /\ data \in {<<a>> : a \in Byte} \cup {<<a, b>> : a \in Byte, b \in Byte}

NextCrc == Crc8Call

SpecCrc == InitCrc /\ [][NextCrc]_vars

-----------------------------------------------------------------------------
(* SpecDecode: parse_sht4x on a frame the device built from two raw words,  *)
(* as sent or with one bit of one word inverted on the bus.                 *)

Corrupt(field, k) ==
    /\ ret.op = None
    /\ flip.field = None
    /\ flip' = [field |-> field, bit |-> k]
    /\ buf' = FlipBitOfWord(buf, WordStart(field), k)
    /\ UNCHANGED <<pc, self, ctor, conn, bus, ops, ret, data>>

ParseCall ==
    /\ ret.op = None
    /\ ret' = Called("parse_sht4x", parse_sht4x(buf))
    /\ UNCHANGED <<pc, self, ctor, conn, bus, ops, buf, flip, data>>

InitDecode ==
    /\ pc = "new"
    /\ self = NoObject
    /\ ctor = NoCtor
    /\ conn = NoConn
    /\ bus = NoBus
    /\ ops = << >>
    /\ ret = NoCall
    /\ buf \in {Frame(t, h) : t \in RawSamples, h \in RawSamples}
    /\ flip = [field |-> None, bit |-> 0]
    /\ data = << >>

NextDecode ==
    \/ \E field \in {"temperature", "humidity"}, k \in 0..15 : Corrupt(field, k)
    \/ ParseCall

SpecDecode == InitDecode /\ [][NextDecode]_vars

-----------------------------------------------------------------------------
(* Properties.                                                              *)

\* C1: after close() has been called, every later read() or reset() fails
\* with an error and performs no transport operation on the released handle.
C1_NoTransportAfterClose ==
    (bus.closes >= 1 /\ ret.op \in {"read", "reset"})
        => (ret.outcome = "error" /\ Len(ops) = 0)

\* C2: over any sequence of operations the bus handle obtained at
\* construction is released (i2c_close) at most once.
C2_ReleasedAtMostOnce == bus.closes <= 1

\* C3: in a frame whose two checksums are correct, inverting one bit of the
\* temperature word or of the humidity word and leaving the checksum bytes
\* alone makes parse_sht4x fail with the checksum error of that field, and
\* return no value.
C3_BitFlipDetected ==
    (ret.op = "parse_sht4x" /\ flip.field # None)
        => /\ ret.outcome = "error"
           /\ Len(ret.value) = 0
           /\ flip.field = "temperature" => ret.error = TemperatureCrcError
           /\ flip.field = "humidity" => ret.error = HumidityCrcError

C3_Witness ==
    /\ ret.op = "parse_sht4x"
    /\ flip = [field |-> "humidity", bit |-> 15]
    /\ ret.error = HumidityCrcError
    /\ buf = FlipBitOfWord(Frame(26214, 48879), 4, 15)

\* C4: whenever the transport returns a count other than 6 for the bus read,
\* the call fails with a length error that reports the count, the bytes are
\* never handed to the decoder and no measurement is returned.
C4_WrongLengthRejected ==
    \A i \in 1..Len(ops) :
        (ops[i].op = "i2c_read_device" /\ ops[i].got # 6)
            => /\ ret.op \in {"read", "measurements"}
               /\ ret.outcome = "error"
               /\ ret.error = LengthError
               /\ ret.detail = <<ops[i].got>>
               /\ ~ret.decoded
               /\ Len(ret.value) = 0

C4_Witness ==
    /\ ret.op = "measurements"
    /\ Len(ops) = 3
    /\ ops[3].op = "i2c_read_device"
    /\ ops[3].got = 7
    /\ ret.error = LengthError
    /\ ret.detail = <<7>>

\* C5: measurements returns a (temperature, humidity) pair only when the
\* command write succeeded, exactly 6 bytes were read and both checksums of
\* the frame match; otherwise an error is raised and no value is returned.
C5_MeasurementOnlyIfValidated ==
    ret.op = "measurements"
        => IF ret.outcome = "ok"
           THEN /\ Len(ret.value) = 2
                /\ Len(ops) = 3
                /\ ops[1].op = "i2c_write_byte"
                /\ ops[1].rc = 0
                /\ ops[3].op = "i2c_read_device"
                /\ ops[3].got = 6
                /\ Len(ops[3].data) = 6
                /\ SensorCrc(SubSeq(ops[3].data, 1, 2)) = ops[3].data[3]
                /\ SensorCrc(SubSeq(ops[3].data, 4, 5)) = ops[3].data[6]
           ELSE ret.outcome = "error" /\ Len(ret.value) = 0

C5_Witness ==
    /\ ret.op = "measurements"
    /\ ret.outcome = "ok"
    /\ Len(ops) = 3
    /\ ops[3].data = Frame(26214, 48879)

\* C6: the transport operations of one read() are a prefix of: write one
\* byte, the current mode (0xFD when no mode was given at construction);
\* wait; read 6 bytes.  No step is repeated, the wait lies between the write
\* and the bus read, and a rejected write is followed by neither.
C6_ReadSequence ==
    ret.op \in {"read", "measurements"}
        => /\ Len(ops) \in 1..3
           /\ ops[1].op = "i2c_write_byte"
           /\ ops[1].handle = self.handle
           /\ ops[1].byte = self.mode
           /\ ~ctor.mode.given => ops[1].byte = 253
           /\ Len(ops) >= 2 => ops[2].op = "sleep"
           /\ Len(ops) >= 3 =>
                  /\ ops[3].op = "i2c_read_device"
                  /\ ops[3].handle = self.handle
                  /\ ops[3].count = 6
           /\ ops[1].rc # 0 => Len(ops) = 1

C6_Witness ==
    /\ ret.op = "read"
    /\ ~ctor.mode.given
    /\ Len(ops) = 3
    /\ ops[1].byte = 253
    /\ ops[1].rc = 0

\* C7: crc8_fast equals the bit-by-bit CRC-8 (polynomial 0x31, initial value
\* 0xFF, no final XOR) on every input of one or two bytes; the table has 256
\* entries, each a byte; crc8_fast([b]) = CRC_TABLE[0xFF XOR b]; and
\* [0xBE, 0xEF] gives 0x92.
C7_TableWellFormed ==
    /\ Len(CRC_TABLE) = 256
    /\ \A i \in 1..256 : CRC_TABLE[i] \in Byte
    /\ \A b \in Byte : TableAt(b) = RefByte(b)

C7_CrcMatchesSensor ==
    ret.op = "crc8_fast"
        => /\ ret.outcome = "ok"
           /\ ret.value = <<SensorCrc(data)>>
           /\ Len(data) = 1 => ret.value[1] = CRC_TABLE[Xor(255, data[1]) + 1]
           /\ data = <<190, 239>> => ret.value[1] = 146
           /\ C7_TableWellFormed

C7_Witness ==
    /\ ret.op = "crc8_fast"
    /\ data = <<190, 239>>
    /\ ret.value = <<146>>

\* The raw words a frame carries, big-endian, and the exact values of the
\* transfer functions scaled by 65535: 175 * t_raw - 45 * 65535 and
\* 100 * h_raw.
TRawOf(f) == (256 * f[1]) + f[2]

HRawOf(f) == (256 * f[4]) + f[5]

ExactT65535(t_raw) == (175 * t_raw) - (45 * 65535)

ExactH65535(h_raw) == 100 * h_raw

\* |65535 * x - n| for a float x and an integer n, on the grid
Err65535(x, n) ==
    LET sx == Scale65535(x.mag)
        m  == FixInt(IF n < 0 THEN -n ELSE n)
    IN  IF x.neg = (n < 0)
        THEN IF FixLess(sx, m) THEN FixSub(m, sx) ELSE FixSub(sx, m)
        ELSE FixAdd(sx, m)

\* 65535 * 2^-45 on the grid
Tolerance65535 == Scale65535(OneAt((IntLimbs * LimbBits) + 45))

Decoded == ret.op = "parse_sht4x" /\ flip.field = None

\* C8 as stated: for every pair of raw words, decoding the frame built from
\* their big-endian bytes and correct checksums succeeds and returns exactly
\* 65535 * temperature = 175 * t_raw - 45 * 65535 and
\* 65535 * humidity = 100 * h_raw.
C8_ExactFormula ==
    Decoded
        => /\ ret.outcome = "ok"
           /\ IsZero(Err65535(ret.value[1], ExactT65535(TRawOf(buf))))
           /\ IsZero(Err65535(ret.value[2], ExactH65535(HRawOf(buf))))

\* C8 amended: decoding succeeds and returns the two formula values as
\* double arithmetic computes them: each is within 2^-45 of the exact value,
\* h_raw 0x0000 gives exactly 0, h_raw 0xFFFF exactly 100, and t_raw 0x6666
\* gives 25.0 within 0.01.
C8_FormulaInFloat ==
    Decoded
        => /\ ret.outcome = "ok"
           /\ Len(ret.value) = 2
           /\ ~FixLess(Tolerance65535,
                       Err65535(ret.value[1], ExactT65535(TRawOf(buf))))
           /\ ~FixLess(Tolerance65535,
                       Err65535(ret.value[2], ExactH65535(HRawOf(buf))))
           /\ HRawOf(buf) = 0 => ret.value[2] = Float(FALSE, FixInt(0))
           /\ HRawOf(buf) = 65535 => ret.value[2] = Float(FALSE, FixInt(100))
           /\ TRawOf(buf) = 26214 =>
                  ~FixLess(FixInt(655), Err65535(ret.value[1], 25 * 65535))

C8_Witness ==
    /\ Decoded
    /\ buf = Frame(1, 4099)
    /\ ret.outcome = "ok"
    /\ ret.value[1].neg
    /\ ~IsZero(Err65535(ret.value[1], ExactT65535(1)))

\* C9: read() and reset() leave the session as it was in every outcome: the
\* handle is not released, the stored connection, handle and mode do not
\* change, and reset() performs exactly one transport operation, the write
\* of 0x94.
C9_ReadResetKeepSession ==
    [][ret'.op \in {"read", "reset", "measurements"}
          => /\ pc' = pc
             /\ self' = self
             /\ conn' = conn
             /\ bus' = bus
             /\ ret'.op = "reset" =>
                    /\ Len(ops') = 1
                    /\ ops'[1].op = "i2c_write_byte"
                    /\ ops'[1].handle = self.handle
                    /\ ops'[1].byte = 148]_vars

C9_Witness ==
    /\ ret.op = "reset"
    /\ ret.outcome = "error"
    /\ ret.error = ResetError
    /\ bus = [state |-> "open", closes |-> 0]
    /\ pc = "constructed"

\* C10: when i2c_open returns a negative handle, construction fails with an
\* open error, no usable session results, and everything acquired during
\* construction, the connection the constructor created included, is
\* released before the error propagates.
C10_OpenFailureRollsBack ==
    (ret.op = "__init__" /\ ops[Len(ops)].handle < 0)
        => /\ ret.outcome = "error"
           /\ ret.error = OpenError
           /\ pc = "ctor_failed"
           /\ bus.state # "open"
           /\ conn.owner = "ctor" => conn.stopped

=============================================================================
